---- MODULE Spec2Model ----
(***************************************************************************)
(* Garmin Connect -> OpenStreetMap GPX sync (main.py) and the one-off      *)
(* ledger migration (migrate_txt_to_db.py) as a state machine.             *)
(*                                                                         *)
(* The persistent state is the SQLite table processed_activities (the      *)
(* ledger), tokens.json, processed_ids.txt, the download directory, the    *)
(* provider's account and the destination's tracks.  A run of main() is a  *)
(* sequential process whose position is pc; every network or file          *)
(* operation that the code guards with try/except has both outcomes.       *)
(***************************************************************************)
EXTENDS Integers, Sequences, FiniteSets, TLC

(* ------------------------------ bounds -------------------------------- *)
\* activities in the provider's account in the general specification
NumActs == 3
\* runs of main() in one behaviour of the general specification
MaxRuns == 2
\* activities in the provider's account in the --history specification
MaxHist == 8
\* lines of processed_ids.txt in the migration specification
MaxLines == 3
\* runs of the migration script in one behaviour
MaxMigrations == 2
\* seconds the clock may advance between two runs of the migration script,
\* and the latest start of the clock in the token specification
MaxClock == 2
\* expires_in (seconds) the token endpoint answers with, when it gives one
TokenLifetime == 61
\* tokens the token endpoint issues in one behaviour
MaxTokens == 2
\* exceptions (network errors, file and database failures) in one behaviour
MaxFaults == 1

(* ------------------------- program constants -------------------------- *)
None == -1
NULL == <<>>
MAX_ACTIVITIES == 10
max_per_run == 5
history_sleep_time == 10
normal_sleep_time == 1
FRESHNESS_MARGIN == 60
HTTP_UNAUTHORIZED == 401

VARIABLES
    ledger,         \* rows of processed_activities (data.db)
    tokensFile,     \* tokens.json: {} when the file is missing, else {record}
    txtFile,        \* processed_ids.txt: [exists, lines]
    account,        \* the provider's activities, newest first
    osm,            \* the destination's tracks: activity ids, in upload order
    issued,         \* tokens the token endpoint has issued so far
    now,            \* the clock (seconds)
    files,          \* activity ids with a <id>.gpx in DOWNLOAD_DIR
    pc,             \* position of main()
    DRY_RUN,        \* the no-network-write flag of this run
    history,        \* args.history of this run
    access_token,   \* main()'s local access_token
    processed_ids,  \* main()'s local processed_ids
    activities,     \* what get_activities returned in this run
    new_activities, \* main()'s local new_activities
    queue,          \* what the loop over reversed(new_activities) has left
    activity_id,    \* the loop's activity_id
    sleep_time,     \* main()'s local sleep_time
    resp,           \* main()'s local resp: [status_code, text]
    uploads,        \* upload requests of this run: [id, token, status]
    downloads,      \* download requests of this run
    tokenCalls,     \* token-endpoint requests of this run (grant types)
    exchanges,      \* the same requests with what was sent and answered
    callbacks,      \* requests the callback listener handled in this run
    writes,         \* activity ids whose ledger row this run committed
    sleeps,         \* time.sleep calls of this run: <<activity id, seconds>>
    ledger0,        \* the ledger as it was when this run started
    osm0,           \* number of destination tracks when this run started
    tokens0,        \* tokens.json as ensure_access_token found it
    read_ok,        \* whether this run's read of the ledger succeeded
    runs,           \* runs of main() started so far
    migrations,     \* runs of the migration script so far
    faults          \* exceptions raised so far

vars == << ledger, tokensFile, txtFile, account, osm, issued, now, files, pc,
           DRY_RUN, history, access_token, processed_ids, activities,
           new_activities, queue, activity_id, sleep_time, resp, uploads, downloads,
           tokenCalls, exchanges, callbacks, writes, sleeps, ledger0, osm0,
           tokens0, read_ok, runs, migrations, faults >>


(* ------------------------------ helpers ------------------------------- *)
Range(s) == { s[i] : i \in 1..Len(s) }

Min(a, b) == IF a <= b THEN a ELSE b

Last(s) == s[Len(s)]

DigitChars == << "0", "1", "2", "3", "4", "5", "6", "7", "8", "9" >>

Whitespace == { " ", "\n", "\t" }

\* str(activity_id): the decimal digits of a non-negative integer
RECURSIVE str(_)
str(n) ==
    IF n < 10 THEN << DigitChars[n + 1] >>
    ELSE str(n \div 10) \o << DigitChars[(n % 10) + 1] >>

RECURSIVE lstrip(_)
lstrip(s) ==
    IF s # <<>> /\ Head(s) \in Whitespace THEN lstrip(Tail(s)) ELSE s

RECURSIVE rstrip(_)
rstrip(s) ==
    IF s # <<>> /\ Last(s) \in Whitespace
    THEN rstrip(SubSeq(s, 1, Len(s) - 1)) ELSE s

\* str.strip()
strip(s) == rstrip(lstrip(s))

(* -------------------- the ledger (processed_activities) --------------- *)
\* the values of the activity_id column: SELECT activity_id FROM ...
LedgerKeys(rows) == { r.activity_id : r \in rows }

\* (variant) the table is emptied before the row is inserted
InsertOrReplace_truncating(rows, row) == { row }

\* (variant) a row with the same primary key is kept as it is
InsertOrReplace_ignoring(rows, row) ==
    IF \E r \in rows : r.activity_id = row.activity_id
    THEN rows ELSE rows \cup { row }

\* INSERT OR REPLACE: a row with the same primary key is deleted first
InsertOrReplace(rows, row) ==
    { r \in rows : r.activity_id # row.activity_id } \cup { row }

\* (variant) the migration written with INSERT OR REPLACE
InsertOrIgnore_replacing(rows, row) ==
    { r \in rows : r.activity_id # row.activity_id } \cup { row }

\* INSERT OR IGNORE: a row with the same primary key is left as it is
InsertOrIgnore(rows, row) ==
    IF \E r \in rows : r.activity_id = row.activity_id
    THEN rows ELSE rows \cup { row }

\* (variant) only the rows that carry a remote track id count as processed
get_processed_ids_confirmed(rows, succeeded) ==
    IF succeeded
    THEN { r.activity_id : r \in { q \in rows : q.gpx_id # NULL } }
    ELSE {}

\* (variant) only the rows with status uploaded count as processed
get_processed_ids_uploaded_only(rows, succeeded) ==
    IF succeeded
    THEN { r.activity_id : r \in { q \in rows : q.status = "uploaded" } }
    ELSE {}

\* get_processed_ids: every key, whatever the row's status; set() when the
\* read raises
get_processed_ids(rows, succeeded) ==
    IF succeeded THEN LedgerKeys(rows) ELSE {}

\* add_processed_id(aid, gpx_id, status) at time t; the table is
\* left alone when the write raises
add_processed_id(rows, aid, gpx_id, status, t, write_ok) ==
    IF write_ok
    THEN InsertOrReplace(rows, [ activity_id |-> str(aid),
                                 uploaded_at |-> t,
                                 gpx_id |-> gpx_id,
                                 status |-> status ])
    ELSE rows

\* the call main() makes after a dry run: add_processed_id(activity_id)
DryRunRecord(rows, aid, t, write_ok) ==
    add_processed_id(rows, aid, NULL, "uploaded", t, write_ok)

\* the call main() makes after a successful upload:
\* add_processed_id(activity_id); gpx_id is computed and only logged
UploadRecord(rows, aid, gpx_id, t, write_ok) ==
    add_processed_id(rows, aid, NULL, "uploaded", t, write_ok)

\* the migration script's loop over the lines of processed_ids.txt
RECURSIVE MigrateLines(_, _, _)
MigrateLines(rows, lines, t) ==
    IF lines = <<>> THEN rows
    ELSE LET aid == strip(Head(lines))
         IN  IF aid = <<>>
             THEN MigrateLines(rows, Tail(lines), t)
             ELSE MigrateLines(
                      InsertOrIgnore(rows, [ activity_id |-> aid,
                                             uploaded_at |-> t,
                                             gpx_id |-> NULL,
                                             status |-> "migrated" ]),
                      Tail(lines), t)

(* ------------------------------ tokens -------------------------------- *)
\* load_tokens: None (here the empty set) when tokens.json is missing
load_tokens == tokensFile

\* what the token endpoint may answer with for the n-th token it issues
TokenResponses(n) ==
    [ access_token : { n },
      refresh_token : { None, n },
      expires_in : { None, TokenLifetime } ]

ExpiresAt(expires_in, t) ==
    IF expires_in # None /\ expires_in # 0 THEN t + expires_in ELSE None

\* the record exchange_code_for_tokens builds from the response j
exchange_code_for_tokens(j, t) ==
    [ access_token |-> j.access_token,
      refresh_token |-> j.refresh_token,
      expires_at |-> ExpiresAt(j.expires_in, t) ]

\* (variant) the refresh token is taken from the response alone
refresh_tokens_dropping(j, refresh_token, t) ==
    [ access_token |-> j.access_token,
      refresh_token |-> j.refresh_token,
      expires_at |-> ExpiresAt(j.expires_in, t) ]

\* the record refresh_tokens builds from the response j
refresh_tokens(j, refresh_token, t) ==
    [ access_token |-> j.access_token,
      refresh_token |-> IF j.refresh_token = None
                        THEN refresh_token ELSE j.refresh_token,
      expires_at |-> ExpiresAt(j.expires_in, t) ]

\* (variant) tokens.json is never written
save_tokens_skipped(file, data, save_ok) == file

\* save_tokens: tokens.json is overwritten, or left alone when the write
\* raises
save_tokens(file, data, save_ok) ==
    IF save_ok THEN { data } ELSE file

\* one entry of the log of token-endpoint requests: what was sent, whether
\* the endpoint answered with tokens, what it answered, whether tokens.json
\* was written, and how many uploads and downloads the run had made so far
Exchange(grant, sent, good, j_access, j_refresh, saved) ==
    [ grant |-> grant, sent |-> sent, ok |-> good,
      access_token |-> j_access, refresh_token |-> j_refresh,
      saved |-> saved,
      uploads |-> Len(uploads), downloads |-> Len(downloads) ]

\* the requests the browser may send to the callback listener in this
\* authorization attempt: without a query, with a query that has no code,
\* and with the code of this attempt
CallbackPaths ==
    { [ has_query |-> FALSE, code |-> None ],
      [ has_query |-> TRUE, code |-> None ],
      [ has_query |-> TRUE, code |-> runs ] }

\* OAuthCallbackHandler.do_GET: the global authorization_code is set when
\* the path has a query with a non-empty code
do_GET(path, current) ==
    IF path.has_query /\ path.code # None THEN path.code ELSE current

\* get_authorization_code: the global is reset, httpd.handle_request()
\* handles one request, the global is returned
get_authorization_code(path) == do_GET(path, None)

\* (variant) the exchange is made whatever the callback delivered
HasCode_always(code) == TRUE

\* if not code: raise RuntimeError(...)
HasCode(code) == code # None

\* (variant) main() goes on without an access token
OnAuthError_ignored == "load"

\* except Exception around ensure_access_token(): log and return
OnAuthError == "done"

\* (variant) the retry keeps the token the run started with
RetryToken_stale(tokens, old) == old

\* access_token = tokens.get("access_token") after the refresh on a 401
RetryToken(tokens, old) == tokens.access_token

\* (variant) the margin compared with > instead of >=
NeedsRefresh_strict(expires_at, t) ==
    expires_at # None /\ t + FRESHNESS_MARGIN > expires_at

\* ensure_access_token's test for a refresh
NeedsRefresh(expires_at, t) ==
    expires_at # None /\ t + FRESHNESS_MARGIN >= expires_at

(* ------------------------- candidate selection ------------------------ *)
\* garmin_api.get_activities(0, MAX_ACTIVITIES)
get_activities(acct) == SubSeq(acct, 1, Min(MAX_ACTIVITIES, Len(acct)))

\* (variant) the list is not filtered against the ledger
NewActivities_unfiltered(acts, processed) == acts

\* [act for act in activities if str(act.get("activityId")) not in processed_ids]
NewActivities(acts, processed) ==
    LET Unseen(a) == str(a) \notin processed
    IN  SelectSeq(acts, Unseen)

\* (variant) new_activities[:max_per_run], the newest instead of the oldest
HistorySlice_head(new) == SubSeq(new, 1, Min(max_per_run, Len(new)))

\* new_activities[-max_per_run:]
HistorySlice(new) ==
    IF Len(new) <= max_per_run THEN new
    ELSE SubSeq(new, Len(new) - max_per_run + 1, Len(new))

\* (variant) the loop runs over new_activities as the provider gave it
reversed_missing(s) == s

\* reversed(new_activities)
reversed(s) == [ i \in 1..Len(s) |-> s[Len(s) + 1 - i] ]

\* (variant) the file is never deleted
Unlink_skipped(fs, id, unlink_ok) == fs

\* if gpx_path.exists(): gpx_path.unlink(); the file stays when unlink raises
Unlink(fs, id, unlink_ok) == IF unlink_ok THEN fs \ { id } ELSE fs

\* (variant) every response counts as a success
ok_always(r) == TRUE

\* resp.ok
ok(r) == r.status_code # None /\ r.status_code < 400

\* (variant) any failed upload is retried after a refresh
ShouldRefresh_any(st) == st >= 400

\* if resp.status_code == 401
ShouldRefresh(st) == st = HTTP_UNAUTHORIZED

\* (variant) an exception in the step of an activity ends the run
OnActivityError_fatal == "done"

\* except Exception inside the loop: log, then the finally block
OnActivityError == "cleanup"

NoResp == [ status_code |-> None, text |-> <<>> ]

\* which outcomes a guarded operation may have: it may raise while the
\* behaviour's budget of exceptions lasts
Outcomes == IF faults < MaxFaults THEN { TRUE, FALSE } ELSE { TRUE }

Spend(good) == IF good THEN faults ELSE faults + 1

(* ------------------------------ the run ------------------------------- *)
\* main() returns
Return == pc' = "done"

\* a run of main() starts: the flags are read
StartRun ==
    /\ pc = "idle"
    /\ runs < MaxRuns
    /\ runs' = runs + 1
    /\ \E dry \in BOOLEAN, hist \in BOOLEAN :
          /\ DRY_RUN' = dry
          /\ history' = hist
    /\ pc' = "auth"
    /\ ledger0' = ledger
    /\ osm0' = Len(osm)
    /\ UNCHANGED << ledger, tokensFile, txtFile, account, osm, issued, now,
                    files, access_token, processed_ids, activities,
                    new_activities, queue, activity_id, sleep_time, resp,
                    uploads, downloads, tokenCalls, exchanges, callbacks, writes, sleeps, tokens0, read_ok,
                    migrations, faults >>

\* the process ends after main() returned: nothing of it is left but what
\* it stored
Exit ==
    /\ pc = "done"
    /\ pc' = "idle"
    /\ DRY_RUN' = FALSE
    /\ history' = FALSE
    /\ access_token' = None
    /\ processed_ids' = {}
    /\ activities' = <<>>
    /\ new_activities' = <<>>
    /\ queue' = <<>>
    /\ activity_id' = None
    /\ sleep_time' = None
    /\ resp' = NoResp
    /\ uploads' = <<>>
    /\ downloads' = <<>>
    /\ tokenCalls' = <<>>
    /\ exchanges' = <<>>
    /\ callbacks' = <<>>
    /\ writes' = <<>>
    /\ sleeps' = <<>>
    /\ ledger0' = {}
    /\ osm0' = 0
    /\ tokens0' = {}
    /\ read_ok' = TRUE
    /\ UNCHANGED << ledger, tokensFile, txtFile, account, osm, issued, now,
                    files, runs, migrations, faults >>

\* the token endpoint answers a request: a new record, or an error status
\* (always an error once it has issued MaxTokens tokens)
EndpointOutcomes ==
    { g \in BOOLEAN : (g => issued < MaxTokens)
                      /\ (~g => (faults < MaxFaults \/ issued >= MaxTokens)) }

\* access_token = ensure_access_token(), and main()'s except around it
EnsureAccessToken ==
    /\ pc = "auth"
    /\ tokens0' = tokensFile
    /\ IF load_tokens = {}
       THEN \E path \in CallbackPaths :
              LET code == get_authorization_code(path)
              IN  /\ callbacks' = Append(callbacks, path)
                  /\ IF ~HasCode(code)
                     THEN /\ pc' = OnAuthError
                          /\ UNCHANGED << tokensFile, issued, access_token,
                                          tokenCalls, exchanges, faults >>
                     ELSE /\ tokenCalls' =
                               Append(tokenCalls, "authorization_code")
                          /\ \E good \in EndpointOutcomes :
                               IF good
                               THEN \E j \in TokenResponses(issued + 1),
                                       saved \in Outcomes :
                                      LET tokens ==
                                            exchange_code_for_tokens(j, now)
                                      IN  /\ issued' = issued + 1
                                          /\ tokensFile' = save_tokens(
                                                tokensFile, tokens, saved)
                                          /\ access_token' = tokens.access_token
                                          /\ exchanges' = Append(exchanges,
                                                Exchange("authorization_code",
                                                    code, TRUE, j.access_token,
                                                    j.refresh_token, saved))
                                          /\ faults' = Spend(saved)
                                          /\ pc' = "load"
                               ELSE /\ pc' = OnAuthError
                                    /\ exchanges' = Append(exchanges,
                                          Exchange("authorization_code", code,
                                                   FALSE, None, None, FALSE))
                                    /\ faults' = Spend(issued >= MaxTokens)
                                    /\ UNCHANGED << tokensFile, issued,
                                                    access_token >>
       ELSE LET stored == CHOOSE t \in load_tokens : TRUE
            IN  /\ callbacks' = callbacks
                /\ IF NeedsRefresh(stored.expires_at, now)
                   THEN /\ tokenCalls' = Append(tokenCalls, "refresh_token")
                        /\ \E good \in EndpointOutcomes :
                             IF good
                             THEN \E j \in TokenResponses(issued + 1),
                                     saved \in Outcomes :
                                    LET tokens == refresh_tokens(
                                            j, stored.refresh_token, now)
                                    IN  /\ issued' = issued + 1
                                        /\ tokensFile' = save_tokens(
                                              tokensFile, tokens, saved)
                                        /\ access_token' = tokens.access_token
                                        /\ exchanges' = Append(exchanges,
                                              Exchange("refresh_token",
                                                  stored.refresh_token, TRUE,
                                                  j.access_token,
                                                  j.refresh_token, saved))
                                        /\ faults' = Spend(saved)
                                        /\ pc' = "load"
                             ELSE /\ pc' = OnAuthError
                                  /\ exchanges' = Append(exchanges,
                                        Exchange("refresh_token",
                                                 stored.refresh_token, FALSE,
                                                 None, None, FALSE))
                                  /\ faults' = Spend(issued >= MaxTokens)
                                  /\ UNCHANGED << tokensFile, issued,
                                                  access_token >>
                   ELSE /\ access_token' = stored.access_token
                        /\ pc' = "load"
                        /\ UNCHANGED << tokensFile, issued, tokenCalls,
                                        exchanges, faults >>
    /\ UNCHANGED << ledger, txtFile, account, osm, now, files, DRY_RUN,
                    history, processed_ids, activities, new_activities, queue,
                    activity_id, sleep_time, resp, uploads, downloads, writes,
                    sleeps, ledger0, osm0, read_ok, runs, migrations >>

\* processed_ids = get_processed_ids()
LoadProcessedIds ==
    /\ pc = "load"
    /\ \E good \in Outcomes :
          /\ processed_ids' = get_processed_ids(ledger, good)
          /\ faults' = Spend(good)
          /\ read_ok' = good
    /\ pc' = "fetch"
    /\ UNCHANGED << ledger, tokensFile, txtFile, account, osm, issued, now,
                    files, DRY_RUN, history, access_token, activities,
                    new_activities, queue, activity_id, sleep_time, resp,
                    uploads, downloads, tokenCalls, exchanges, callbacks, writes, sleeps, ledger0,
                    osm0, tokens0, runs, migrations >>

\* garmin_api.login(), get_activities, the filter and the --history slice;
\* a provider error ends the run in main()'s outer except
FetchActivities ==
    /\ pc = "fetch"
    /\ \E good \in Outcomes :
          /\ faults' = Spend(good)
          /\ IF good
             THEN LET acts == get_activities(account)
                      new == NewActivities(acts, processed_ids)
                  IN  /\ activities' = acts
                      /\ IF new = <<>>
                         THEN /\ Return
                              /\ new_activities' = new
                              /\ UNCHANGED << queue, sleep_time >>
                         ELSE /\ new_activities' =
                                   IF history THEN HistorySlice(new) ELSE new
                              /\ sleep_time' =
                                   IF history THEN history_sleep_time
                                   ELSE normal_sleep_time
                              /\ queue' = reversed(new_activities')
                              /\ pc' = "loop"
             ELSE /\ Return
                  /\ UNCHANGED << activities, new_activities, queue,
                                  sleep_time >>
    /\ UNCHANGED << ledger, tokensFile, txtFile, account, osm, issued, now,
                    files, DRY_RUN, history, access_token, processed_ids,
                    activity_id, resp, uploads, downloads, tokenCalls, exchanges, callbacks, writes,
                    sleeps, ledger0, osm0, tokens0, read_ok, runs, migrations >>

\* the loop takes its next activity, downloads it and writes <id>.gpx; an
\* error leaves the file behind when it had been opened already
Download ==
    /\ pc = "loop"
    /\ queue # <<>>
    /\ activity_id' = Head(queue)
    /\ queue' = Tail(queue)
    /\ downloads' = Append(downloads, Head(queue))
    /\ \E good \in Outcomes :
          /\ faults' = Spend(good)
          /\ IF good
             THEN /\ files' = files \cup { Head(queue) }
                  /\ pc' = IF DRY_RUN THEN "dry" ELSE "upload"
             ELSE /\ \E opened \in BOOLEAN :
                        files' = IF opened THEN files \cup { Head(queue) }
                                 ELSE files
                  /\ pc' = OnActivityError
    /\ UNCHANGED << ledger, tokensFile, txtFile, account, osm, issued, now,
                    DRY_RUN, history, access_token, processed_ids, activities,
                    new_activities, sleep_time, resp, uploads, tokenCalls, exchanges, callbacks,
                    writes, sleeps, ledger0, osm0, tokens0, read_ok, runs, migrations >>

\* if DRY_RUN: add_processed_id(activity_id)
DryRun ==
    /\ pc = "dry"
    /\ \E write_ok \in Outcomes :
          /\ ledger' = DryRunRecord(ledger, activity_id, now, write_ok)
          /\ writes' = IF write_ok THEN Append(writes, activity_id) ELSE writes
          /\ faults' = Spend(write_ok)
    /\ pc' = "sleep"
    /\ UNCHANGED << tokensFile, txtFile, account, osm, issued, now, files,
                    DRY_RUN, history, access_token, processed_ids, activities,
                    new_activities, queue, activity_id, sleep_time, resp,
                    uploads, downloads, tokenCalls, exchanges, callbacks, sleeps, ledger0, osm0,
                    tokens0, read_ok, runs, migrations >>

\* the statuses the destination may answer an upload with; None stands for
\* requests.post raising
UploadOutcomes ==
    { 200, HTTP_UNAUTHORIZED, 500 }
        \cup (IF faults < MaxFaults THEN { None } ELSE {})

\* upload_gpx_with_bearer(access_token, ...): the request is sent with the
\* token; on 200 the destination stores the track and answers with its id
Post(st, next401, nextOther) ==
    /\ uploads' = Append(uploads, [ id |-> activity_id,
                                     token |-> access_token,
                                     status |-> st ])
    /\ IF st = None
       THEN /\ faults' = faults + 1
            /\ pc' = OnActivityError
            /\ UNCHANGED << resp, osm >>
       ELSE /\ faults' = faults
            /\ osm' = IF st = 200 THEN Append(osm, activity_id) ELSE osm
            /\ resp' = [ status_code |-> st,
                         text |-> IF st = 200 THEN str(Len(osm) + 1)
                                  ELSE <<>> ]
            /\ pc' = IF ShouldRefresh(st) THEN next401 ELSE nextOther

\* resp = upload_gpx_with_bearer(...), the first attempt
Upload ==
    /\ pc = "upload"
    /\ \E st \in UploadOutcomes : Post(st, "refresh", "record")
    /\ UNCHANGED << ledger, tokensFile, txtFile, account, issued, now, files,
                    DRY_RUN, history, access_token, processed_ids, activities,
                    new_activities, queue, activity_id, sleep_time, downloads,
                    tokenCalls, exchanges, callbacks, writes, sleeps, ledger0, osm0, tokens0, read_ok, runs,
                    migrations >>

\* if resp.status_code == 401: tokens = load_tokens(); with a refresh token
\* stored, refresh_tokens(...) and access_token = tokens.get("access_token")
Refresh401 ==
    /\ pc = "refresh"
    /\ IF load_tokens # {}
          /\ (CHOOSE t \in load_tokens : TRUE).refresh_token # None
       THEN LET stored == CHOOSE t \in load_tokens : TRUE
            IN  /\ tokenCalls' = Append(tokenCalls, "refresh_token")
                /\ \E good \in EndpointOutcomes :
                     IF good
                     THEN \E j \in TokenResponses(issued + 1),
                             saved \in Outcomes :
                            LET tokens == refresh_tokens(
                                    j, stored.refresh_token, now)
                            IN  /\ issued' = issued + 1
                                /\ tokensFile' =
                                     save_tokens(tokensFile, tokens, saved)
                                /\ access_token' = RetryToken(tokens, access_token)
                                /\ exchanges' = Append(exchanges,
                                      Exchange("refresh_token",
                                               stored.refresh_token, TRUE,
                                               j.access_token, j.refresh_token,
                                               saved))
                                /\ faults' = Spend(saved)
                                /\ pc' = "retry"
                     ELSE /\ pc' = OnActivityError
                          /\ exchanges' = Append(exchanges,
                                Exchange("refresh_token", stored.refresh_token,
                                         FALSE, None, None, FALSE))
                          /\ faults' = Spend(issued >= MaxTokens)
                          /\ UNCHANGED << tokensFile, issued, access_token >>
       ELSE /\ pc' = "record"
            /\ UNCHANGED << tokensFile, issued, access_token, tokenCalls,
                            exchanges, faults >>
    /\ UNCHANGED << ledger, txtFile, account, osm, now, files, DRY_RUN,
                    history, processed_ids, activities, new_activities, queue,
                    activity_id, sleep_time, resp, uploads, downloads, writes,
                    sleeps, ledger0, osm0, tokens0, read_ok, runs, migrations,
                    callbacks >>

\* resp = upload_gpx_with_bearer(...), the retry after the refresh
RetryUpload ==
    /\ pc = "retry"
    /\ \E st \in UploadOutcomes : Post(st, "record", "record")
    /\ UNCHANGED << ledger, tokensFile, txtFile, account, issued, now, files,
                    DRY_RUN, history, access_token, processed_ids, activities,
                    new_activities, queue, activity_id, sleep_time, downloads,
                    tokenCalls, exchanges, callbacks, writes, sleeps, ledger0, osm0, tokens0, read_ok, runs,
                    migrations >>

\* if not resp.ok: log the failure; else gpx_id = resp.text.strip() and
\* add_processed_id(activity_id)
Record ==
    /\ pc = "record"
    /\ IF ok(resp)
       THEN \E write_ok \in Outcomes :
              /\ ledger' = UploadRecord(ledger, activity_id,
                                        strip(resp.text), now, write_ok)
              /\ writes' = IF write_ok THEN Append(writes, activity_id)
                           ELSE writes
              /\ faults' = Spend(write_ok)
       ELSE UNCHANGED << ledger, writes, faults >>
    /\ pc' = "sleep"
    /\ UNCHANGED << tokensFile, txtFile, account, osm, issued, now, files,
                    DRY_RUN, history, access_token, processed_ids, activities,
                    new_activities, queue, activity_id, sleep_time, resp,
                    uploads, downloads, tokenCalls, exchanges, callbacks, sleeps, ledger0, osm0,
                    tokens0, read_ok, runs, migrations >>

\* time.sleep(sleep_time), the last statement of the try block
Sleep ==
    /\ pc = "sleep"
    /\ now' = now + sleep_time
    /\ sleeps' = Append(sleeps, << activity_id, sleep_time >>)
    /\ pc' = "cleanup"
    /\ UNCHANGED << ledger, tokensFile, txtFile, account, osm, issued, files,
                    DRY_RUN, history, access_token, processed_ids, activities,
                    new_activities, queue, activity_id, sleep_time, resp,
                    uploads, downloads, tokenCalls, exchanges, callbacks, writes, ledger0, osm0,
                    tokens0, read_ok, runs, migrations, faults >>

\* finally: if gpx_path.exists(): gpx_path.unlink(), itself guarded
Cleanup ==
    /\ pc = "cleanup"
    /\ IF activity_id \in files
       THEN \E unlink_ok \in Outcomes :
              /\ files' = Unlink(files, activity_id, unlink_ok)
              /\ faults' = Spend(unlink_ok)
       ELSE UNCHANGED << files, faults >>
    /\ pc' = "loop"
    /\ UNCHANGED << ledger, tokensFile, txtFile, account, osm, issued, now,
                    DRY_RUN, history, access_token, processed_ids, activities,
                    new_activities, queue, activity_id, sleep_time, resp,
                    uploads, downloads, tokenCalls, exchanges, callbacks, writes, sleeps, ledger0,
                    osm0, tokens0, read_ok, runs, migrations >>

\* the loop is exhausted: main() logs "Sync finished" and returns
EndRun ==
    /\ pc = "loop"
    /\ queue = <<>>
    /\ Return
    /\ UNCHANGED << ledger, tokensFile, txtFile, account, osm, issued, now,
                    files, DRY_RUN, history, access_token, processed_ids,
                    activities, new_activities, queue, activity_id, sleep_time,
                    resp, uploads, downloads, tokenCalls, exchanges, callbacks, writes, sleeps,
                    ledger0, osm0, tokens0, read_ok, runs, migrations, faults >>

(* --------------------------- the migration ---------------------------- *)
\* migrate_txt_to_db.py, run while main() is not running
Migrate ==
    /\ pc = "idle"
    /\ migrations < MaxMigrations
    /\ migrations' = migrations + 1
    /\ ledger' = IF txtFile.exists
                 THEN MigrateLines(ledger, txtFile.lines, now)
                 ELSE ledger
    /\ UNCHANGED << tokensFile, txtFile, account, osm, issued, now, files, pc,
                    DRY_RUN, history, access_token, processed_ids, activities,
                    new_activities, queue, activity_id, sleep_time, resp,
                    uploads, downloads, tokenCalls, exchanges, callbacks, writes, sleeps, ledger0,
                    osm0, tokens0, read_ok, runs, faults >>

(* --------------------------- the environment -------------------------- *)
\* the provider's list, newest first, of an account with n activities; the
\* identifiers are opaque, so one order that is neither ascending nor
\* descending stands for all
Catalogue(n) ==
    [ i \in 1..n |-> IF i % 2 = 1 THEN (IF i < n THEN i + 1 ELSE i)
                     ELSE i - 1 ]

Suffixes(s) == { SubSeq(s, k, Len(s)) : k \in 1..(Len(s) + 1) }

(* --------------------------- specifications --------------------------- *)
Quiet ==
    /\ pc = "idle"
    /\ DRY_RUN = FALSE
    /\ history = FALSE
    /\ access_token = None
    /\ processed_ids = {}
    /\ activities = <<>>
    /\ new_activities = <<>>
    /\ queue = <<>>
    /\ activity_id = None
    /\ sleep_time = None
    /\ resp = NoResp
    /\ uploads = <<>>
    /\ downloads = <<>>
    /\ tokenCalls = <<>>
    /\ exchanges = <<>>
    /\ callbacks = <<>>
    /\ writes = <<>>
    /\ sleeps = <<>>
    /\ osm0 = 0
    /\ tokens0 = {}
    /\ read_ok = TRUE
    /\ runs = 0
    /\ migrations = 0

\* a row as an earlier run of the migration left it
MigratedRow(aid) ==
    [ activity_id |-> str(aid), uploaded_at |-> 0, gpx_id |-> NULL,
      status |-> "migrated" ]

\* a row as an earlier run of main() left it
UploadedRow(aid) ==
    [ activity_id |-> str(aid), uploaded_at |-> 0, gpx_id |-> NULL,
      status |-> "uploaded" ]

\* a record as an earlier exchange left it in tokens.json
StoredTokens(refresh_token, expires_at) ==
    [ access_token |-> 1, refresh_token |-> refresh_token,
      expires_at |-> expires_at ]

NoTxt == [ exists |-> FALSE, lines |-> <<>> ]

\* the general specification: no tokens stored yet, the ledger empty or as
\* a migration left it, and runs of main() one after the other
Init ==
    /\ Quiet
    /\ ledger \in { {}, { MigratedRow(1) } }
    /\ ledger0 = {}
    /\ tokensFile = {}
    /\ txtFile = NoTxt
    /\ account \in Suffixes(Catalogue(NumActs))
    /\ osm = <<>>
    /\ issued = 0
    /\ now = 0
    /\ files = {}
    /\ faults = 0

Next ==
    \/ StartRun
    \/ EnsureAccessToken
    \/ LoadProcessedIds
    \/ FetchActivities
    \/ Download
    \/ DryRun
    \/ Upload
    \/ Refresh401
    \/ RetryUpload
    \/ Record
    \/ Sleep
    \/ Cleanup
    \/ EndRun
    \/ Exit

Spec == Init /\ [][Next]_vars

(* ------------------- the --history specification ---------------------- *)
\* one run of main() with --history, tokens stored and still valid, over
\* accounts of up to MaxHist activities of which some are in the ledger
InitHist ==
    /\ Quiet
    /\ \E done \in { {}, { 1 }, { 3, 4 } } :
          /\ ledger = { UploadedRow(a) : a \in done }
          /\ ledger0 = ledger
    /\ tokensFile = { StoredTokens(1, None) }
    /\ txtFile = NoTxt
    /\ account \in Suffixes(Catalogue(MaxHist))
    /\ osm = <<>>
    /\ issued = 1
    /\ now = 0
    /\ files = {}
    /\ faults = 0

StartHistoryRun ==
    /\ pc = "idle"
    /\ runs < 1
    /\ runs' = runs + 1
    /\ \E dry \in BOOLEAN : DRY_RUN' = dry
    /\ history' = TRUE
    /\ pc' = "auth"
    /\ ledger0' = ledger
    /\ osm0' = Len(osm)
    /\ UNCHANGED << ledger, tokensFile, txtFile, account, osm, issued, now,
                    files, access_token, processed_ids, activities,
                    new_activities, queue, activity_id, sleep_time, resp,
                    uploads, downloads, tokenCalls, exchanges, callbacks, writes, sleeps, tokens0,
                    read_ok, migrations, faults >>

NextHist ==
    \/ StartHistoryRun
    \/ EnsureAccessToken
    \/ LoadProcessedIds
    \/ FetchActivities
    \/ Download
    \/ DryRun
    \/ Upload
    \/ Refresh401
    \/ RetryUpload
    \/ Record
    \/ Sleep
    \/ Cleanup
    \/ EndRun

SpecHist == InitHist /\ [][NextHist]_vars

(* ----------------------- the token specification ---------------------- *)
\* main() is about to call ensure_access_token; tokens.json is missing or
\* holds a record whose expiry lies around the 60 second margin
InitTok ==
    /\ Quiet
    /\ ledger = {}
    /\ ledger0 = {}
    /\ now \in 0..MaxClock
    /\ tokensFile \in
         { {} } \cup
         { { StoredTokens(r, e) } :
             r \in { None, 1 },
             e \in { None } \cup
                   { now + d : d \in { 1, FRESHNESS_MARGIN - 1,
                                       FRESHNESS_MARGIN,
                                       FRESHNESS_MARGIN + 1,
                                       TokenLifetime + 1 } } }
    /\ txtFile = NoTxt
    /\ account = <<>>
    /\ osm = <<>>
    /\ issued = 1
    /\ files = {}
    /\ faults \in 0..MaxFaults

StartTokenRun ==
    /\ pc = "idle"
    /\ runs < 1
    /\ runs' = runs + 1
    /\ pc' = "auth"
    /\ UNCHANGED << ledger, tokensFile, txtFile, account, osm, issued, now,
                    files, DRY_RUN, history, access_token, processed_ids,
                    activities, new_activities, queue, activity_id, sleep_time,
                    resp, uploads, downloads, tokenCalls, exchanges, callbacks, writes, sleeps,
                    ledger0, osm0, tokens0, read_ok, migrations, faults >>

NextTok ==
    \/ StartTokenRun
    \/ EnsureAccessToken

SpecTok == InitTok /\ [][NextTok]_vars

(* --------------------- the migration specification -------------------- *)
\* the clock advances between two runs of the migration script
Tick ==
    /\ pc = "idle"
    /\ now < MaxClock
    /\ now' = now + 1
    /\ UNCHANGED << ledger, tokensFile, txtFile, account, osm, issued, files,
                    pc, DRY_RUN, history, access_token, processed_ids,
                    activities, new_activities, queue, activity_id, sleep_time,
                    resp, uploads, downloads, tokenCalls, exchanges, callbacks, writes, sleeps,
                    ledger0, osm0, tokens0, read_ok, runs, migrations,
                    faults >>

\* lines of processed_ids.txt: identifiers, with and without surrounding
\* white space, and blank lines
TxtLines ==
    { << "\n" >>,
      str(1) \o << "\n" >>,
      str(2) \o << "\n" >>,
      << " " >> \o str(1) \o << " ", "\n" >>,
      str(12) \o << "\n" >>,
      str(2) }

TxtFiles ==
    { NoTxt } \cup
    { [ exists |-> TRUE, lines |-> l ] :
        l \in UNION { [ 1..k -> TxtLines ] : k \in 0..MaxLines } }

\* processed_ids.txt as some earlier version left it, and data.db missing
\* or holding what a run of main() recorded; ledger0 is the table as the
\* first migration finds it
InitMig ==
    /\ Quiet
    /\ ledger \in { {}, { UploadedRow(1) } }
    /\ ledger0 = ledger
    /\ tokensFile = {}
    /\ txtFile \in TxtFiles
    /\ account = <<>>
    /\ osm = <<>>
    /\ issued = 0
    /\ now = 0
    /\ files = {}
    /\ faults = 0

NextMig ==
    \/ Migrate
    \/ Tick

SpecMig == InitMig /\ [][NextMig]_vars

(* ------------------ runs and migrations, interleaved ------------------ *)
\* processed_ids.txt for the combined specification: missing, empty, or
\* one line
LegacyFiles == { f \in TxtFiles : Len(f.lines) <= 1 }

\* tokens stored and valid, the ledger missing or holding a row of an
\* earlier upload, a legacy file that may name activities of the account,
\* an account that has lost its newest activity; runs of main() and of the
\* migration script follow one another in any order while the clock
\* advances
InitAll ==
    /\ Quiet
    /\ ledger \in { {}, { UploadedRow(1) } }
    /\ ledger0 = {}
    /\ tokensFile = { StoredTokens(1, None) }
    /\ txtFile \in LegacyFiles
    /\ account = Tail(Catalogue(NumActs))
    /\ osm = <<>>
    /\ issued = 1
    /\ now = 0
    /\ files = {}
    /\ faults = 0

NextAll ==
    \/ Next
    \/ Migrate
    \/ Tick

SpecAll == InitAll /\ [][NextAll]_vars

(* ------------------------------- claims ------------------------------- *)
UploadIds == { uploads[k].id : k \in 1..Len(uploads) }

\* the upload requests of this run for activity x, in the order sent
UploadsOf(x) == LET Mine(u) == u.id = x IN SelectSeq(uploads, Mine)

\* the place of activity a in the list the provider returned
Pos(a) == CHOOSE i \in 1..Len(activities) : activities[i] = a

\* the activities whose track the destination stored before this run
DeliveredBefore == { osm[i] : i \in 1..osm0 }

\* the processing step of activity x is past its ledger write
Recorded(x) ==
    x # activity_id \/ pc \in { "sleep", "cleanup", "loop", "done" }

C3_ChronologicalOrder ==
    /\ \A i, j \in 1..Len(uploads) :
          i < j => Pos(uploads[i].id) >= Pos(uploads[j].id)
    /\ \A k \in 1..Len(downloads) :
          downloads[k] = new_activities[Len(new_activities) + 1 - k]
    /\ \A i, j \in 1..Len(downloads) :
          i < j => Pos(downloads[i]) > Pos(downloads[j])
    /\ ( /\ activities # <<>>
         /\ Len(uploads) = Len(activities)
         /\ \A k \in 1..Len(uploads) : uploads[k].status = 200 )
       => /\ \A k \in 1..Len(uploads) :
                uploads[k].id = activities[Len(activities) + 1 - k]
          /\ Len(osm) = osm0 + Len(activities)
          /\ \A k \in 1..Len(activities) :
                osm[osm0 + k] = activities[Len(activities) + 1 - k]

\* three new activities, each uploaded with success at the first attempt
C3_Witness ==
    /\ pc = "done"
    /\ Len(activities) >= 3
    /\ Len(uploads) = Len(activities)
    /\ \A k \in 1..Len(uploads) : uploads[k].status = 200

\* the first upload of x answered 401 and the last one succeeded
RetriedWithSuccess(x) ==
    LET u == UploadsOf(x)
    IN  /\ Len(u) >= 2
        /\ u[1].status = HTTP_UNAUTHORIZED
        /\ u[Len(u)].status = 200

TwoAttempts(x) ==
    LET u == UploadsOf(x)
    IN  /\ Len(u) = 2
        /\ u[2].token # u[1].token
        /\ (x = activity_id => u[2].token = access_token)
        /\ "refresh_token" \in Range(tokenCalls)

OneUploadedRow(x) ==
    /\ Cardinality({ r \in ledger : r.activity_id = str(x) }) = 1
    /\ \A r \in ledger : r.activity_id = str(x) => r.status = "uploaded"

Stored == CHOOSE t \in tokens0 : TRUE

\* isFresh as the claim states it
FreshAsClaimed(rec, t) == rec.expires_at = None \/ t + 60 < rec.expires_at

\* ensure_access_token has returned, or raised, on a stored record
EnsureReturned == pc = "load" /\ tokens0 # {}

EnsureRaised == pc = "done" /\ access_token = None /\ tokens0 # {}

CandPos ==
    { i \in 1..Len(activities) : str(activities[i]) \notin processed_ids }

\* the oldest five of them: those with fewer than five candidates after
\* them in the newest-first list
OldestFive ==
    { activities[i] :
        i \in { c \in CandPos :
                  Cardinality({ d \in CandPos : d > c }) < 5 } }

\* main() returned after the loop, or without one
RunOver == pc = "done"

\* C6: with --history, only the oldest min(N, 5) of the N new activities
\* are downloaded or uploaded, and at the end of the run each of them has
\* been processed.
C6_HistoryTruncation ==
    history =>
        /\ Range(downloads) \subseteq OldestFive
        /\ UploadIds \subseteq OldestFive
        /\ (RunOver /\ activities # <<>>) =>
              /\ Range(downloads) = OldestFive
              /\ Len(downloads) = Min(Cardinality(CandPos), 5)

\* eight new activities, five processed
C6_Witness ==
    /\ RunOver
    /\ history
    /\ Cardinality(CandPos) = 8
    /\ Len(downloads) = 5
    /\ Range(downloads) = { activities[i] : i \in 4..8 }

C8_AsStated ==
    ( /\ pc = "sleep"
      /\ ~DRY_RUN
      /\ ok(resp)
      /\ activity_id \in Range(writes) )
    => \E r \in ledger :
          /\ r.activity_id = str(activity_id)
          /\ r.status = "uploaded"
          /\ r.gpx_id = strip(resp.text)

\* C9: in a dry run no upload is sent and every activity recorded has
\* status dry-run.
C9_AsStated ==
    DRY_RUN =>
        /\ uploads = <<>>
        /\ \A x \in Range(writes) :
              \E r \in ledger :
                  /\ r.activity_id = str(x)
                  /\ r.status = "dry-run"

\* the identifiers of processed_ids.txt
TxtIds ==
    { strip(txtFile.lines[i]) : i \in 1..Len(txtFile.lines) } \ { <<>> }

FromLegacyOnly == txtFile.exists /\ ledger0 = {}

C10_OneRowEach ==
    (FromLegacyOnly /\ migrations >= 1) =>
        /\ LedgerKeys(ledger) = TxtIds
        /\ Cardinality(ledger) = Cardinality(TxtIds)
        /\ \A r \in ledger : r.status = "migrated"

\* C10: from a legacy file and no table, the migration leaves one row per
\* non-empty identifier of the file, each with status migrated, and a
\* second migration changes nothing.
C10_Migration ==
    /\ []C10_OneRowEach
    /\ [][ (FromLegacyOnly /\ migrations >= 1 /\ migrations' = migrations + 1)
              => ledger' = ledger ]_vars

\* the migration ran twice, at different times, over a file with two
\* identifiers, a repeated one and a blank line
C10_Witness ==
    /\ FromLegacyOnly
    /\ migrations = 2
    /\ now >= 1
    /\ Cardinality(TxtIds) = 2
    /\ Len(txtFile.lines) = 3
    /\ \A r \in ledger : r.uploaded_at = 0

\* C11 as stated: once a token exchange of the run has failed, it is the
\* run's last token exchange and no download or upload follows it.
C11_AsStated ==
    \A k \in 1..Len(exchanges) :
        ~ exchanges[k].ok =>
            /\ k = Len(exchanges)
            /\ Len(downloads) = exchanges[k].downloads
            /\ Len(uploads) = exchanges[k].uploads

\* the position of main() is inside the loop over reversed(new_activities)
InLoop ==
    pc \in { "loop", "dry", "upload", "refresh", "retry", "record", "sleep",
             "cleanup" }

\* main() returned after it had entered the loop
LoopOver == pc = "done" /\ new_activities # <<>>

\* C12: whatever fails in the step of an activity (the download, the
\* upload, the refresh after a 401), the activities taken so far and those
\* still to come are the candidates in order, and main() returns only when
\* every candidate has been taken.
C12_NonFatal ==
    /\ (InLoop \/ LoopOver) => downloads \o queue = reversed(new_activities)
    /\ LoopOver => queue = <<>>

\* a run over three candidates: the upload of the first was refused, the
\* step of the second ended in an exception before any upload, the third
\* was uploaded
C12_Witness ==
    /\ LoopOver
    /\ ~DRY_RUN
    /\ Len(downloads) = 3
    /\ uploads # <<>>
    /\ uploads[1].id = downloads[1]
    /\ uploads[1].status = 500
    /\ downloads[2] \notin UploadIds
    /\ Last(uploads).id = downloads[3]
    /\ Last(uploads).status = 200

\* main() returned because ensure_access_token raised
NoAccessToken == pc = "done" /\ access_token = None

\* main() returned because the provider's login or get_activities raised
ProviderFailed ==
    pc = "done" /\ access_token # None /\ activities = <<>> /\ account # <<>>

\* C13: the provider is contacted only with an access token in hand, and a
\* run that ends without an access token or in a provider error has
\* downloaded nothing, uploaded nothing and left the ledger as it was.
C13_ProviderFatal ==
    /\ (pc \in { "load", "fetch" } \/ InLoop \/ activities # <<>>)
          => access_token # None
    /\ (NoAccessToken \/ ProviderFailed)
          => /\ downloads = <<>>
             /\ uploads = <<>>
             /\ queue = <<>>
             /\ ledger = ledger0

\* a run over an account with activities and a ledger with a row ended in
\* a provider error
C13_Witness ==
    /\ ProviderFailed
    /\ ledger # {}
    /\ tokenCalls # <<>>

\* the stored record is stale
Stale == ~ FreshAsClaimed(Stored, now)

\* the record tokens.json holds now
Persisted == CHOOSE t \in tokensFile : TRUE

\* one refresh_token exchange with the stored refresh token was made and
\* its access token returned
OneRefresh ==
    /\ Len(exchanges) = 1
    /\ exchanges[1].grant = "refresh_token"
    /\ exchanges[1].sent = Stored.refresh_token
    /\ access_token = exchanges[1].access_token

\* tokens.json holds the record of the answer and nothing else, with the
\* previous refresh token when the answer has none
Replaced ==
    /\ Cardinality(tokensFile) = 1
    /\ Persisted.access_token = exchanges[1].access_token
    /\ Persisted.refresh_token =
          IF exchanges[1].refresh_token = None
          THEN Stored.refresh_token
          ELSE exchanges[1].refresh_token

CarriedCode(path) == path.has_query /\ path.code # None

\* ensure_access_token has run the interactive authorization in this run
Attempted == pc \notin { "idle", "auth" } /\ tokens0 = {}

\* C15: an authorization attempt handles one callback request; a code is
\* exchanged at most once, and only the code that request carried, which
\* is the code of this attempt; after a request without a code main()
\* returns with no token exchange made and no record stored.
C15_OneShot ==
    /\ Len(callbacks) = (IF Attempted THEN 1 ELSE 0)
    /\ \A k \in 1..Len(exchanges) :
          exchanges[k].grant = "authorization_code"
              => /\ k = 1
                 /\ Attempted
                 /\ CarriedCode(callbacks[1])
                 /\ exchanges[k].sent = callbacks[1].code
                 /\ exchanges[k].sent = runs
    /\ (Attempted /\ ~ CarriedCode(callbacks[1]))
          => /\ pc = "done"
             /\ access_token = None
             /\ exchanges = <<>>
             /\ tokenCalls = <<>>
             /\ tokensFile = {}

\* the second authorization attempt of a behaviour exchanged its own code,
\* after the first had exchanged a code too
C15_Witness ==
    /\ pc = "load"
    /\ runs = 2
    /\ issued = 2
    /\ Attempted
    /\ exchanges # <<>>
    /\ exchanges[1].grant = "authorization_code"
    /\ exchanges[1].sent = 2

\* the i-th upload request of the run is a second attempt for its activity
IsRetry(i) == i > 1 /\ uploads[i - 1].id = uploads[i].id

\* the token exchanges made when the run had sent n upload requests
ExchangesAfter(n) ==
    { k \in 1..Len(exchanges) : exchanges[k].uploads = n }

\* C16: an activity gets at most two upload requests in a run; a second
\* one only right after a first one answered 401 and a refresh exchange
\* that succeeded; a refresh is made only after a first attempt answered
\* 401, once, and never after a second attempt.
C16_RetryBound ==
    /\ \A x \in UploadIds : Len(UploadsOf(x)) <= 2
    /\ \A i \in 1..Len(uploads) :
          IsRetry(i) =>
              /\ ~ IsRetry(i - 1)
              /\ uploads[i - 1].status = HTTP_UNAUTHORIZED
              /\ \E k \in ExchangesAfter(i - 1) :
                    /\ exchanges[k].ok
                    /\ exchanges[k].grant = "refresh_token"
    /\ \A n \in 1..Len(uploads) :
          /\ Cardinality(ExchangesAfter(n)) <= 1
          /\ ExchangesAfter(n) # {} =>
                /\ ~ IsRetry(n)
                /\ uploads[n].status = HTTP_UNAUTHORIZED

\* the second attempt for an activity was answered 401 as well and its
\* step went on to the ledger test and the sleep without another attempt
C16_Witness ==
    /\ pc = "cleanup"
    /\ Len(UploadsOf(activity_id)) = 2
    /\ Last(uploads).id = activity_id
    /\ Last(uploads).status = HTTP_UNAUTHORIZED
    /\ sleeps # <<>>
    /\ Last(sleeps)[1] = activity_id

\* the keys of the rows this run committed
Written == { str(x) : x \in Range(writes) }

\* the rows of a table whose key this run did not write
Untouched(rows) == { r \in rows : r.activity_id \notin Written }

\* what holds of the ledger at every point of a run
C17_WritesInRun ==
    pc # "idle" =>
        /\ \A i, j \in 1..Len(writes) : i # j => writes[i] # writes[j]
        /\ \A x \in Range(writes) :
              \/ DRY_RUN
              \/ /\ x \in UploadIds
                 /\ Last(UploadsOf(x)).status = 200
        /\ Untouched(ledger) = Untouched(ledger0)
        /\ \A x \in Range(downloads) :
              (x \notin Range(writes) /\ str(x) \notin LedgerKeys(ledger0))
                  => str(x) \notin LedgerKeys(ledger)

\* C17: in a run the row of an activity is written at most once, and the
\* ledger changes only in the step of that activity, in dry mode or right
\* after the last upload request for it was answered with success; the
\* rows of every other activity, a failed one included, stay as they were,
\* so that a failed activity has no row and is a candidate again.
C17_LedgerWrites ==
    /\ []C17_WritesInRun
    /\ [][ ledger' # ledger =>
             /\ pc \in { "dry", "record" }
             /\ { r \in ledger' : r.activity_id # str(activity_id) }
                   = { r \in ledger : r.activity_id # str(activity_id) }
             /\ writes' = Append(writes, activity_id)
             /\ \/ DRY_RUN
                \/ /\ uploads # <<>>
                   /\ Last(uploads).id = activity_id
                   /\ Last(uploads).status = 200 ]_vars

\* a run is over in which the upload of one activity was refused and has
\* left no row, while another activity was uploaded and recorded
C17_Witness ==
    /\ pc = "done"
    /\ ~DRY_RUN
    /\ writes # <<>>
    /\ \E x \in UploadIds :
          /\ Last(UploadsOf(x)).status = 500
          /\ x \notin Range(writes)
          /\ str(x) \notin LedgerKeys(ledger)

\* main() has computed processed_ids in this run
Filtered ==
    pc = "fetch" \/ InLoop \/ (pc = "done" /\ access_token # None)

\* the filter set is the set of all ledger keys, no candidate has a row,
\* and no activity with a row gets an upload request
IgnoresStatus ==
    /\ processed_ids = LedgerKeys(ledger0)
    /\ \A a \in Range(new_activities) : str(a) \notin LedgerKeys(ledger0)
    /\ \A r \in ledger0 :
          \A k \in 1..Len(uploads) : str(uploads[k].id) # r.activity_id

Delay == IF history THEN history_sleep_time ELSE normal_sleep_time

\* C19 as stated: when the step of an activity is over, whatever its
\* outcome, the run has slept for the delay of its mode after that
\* activity: 10 with --history and 1 without.
C19_AsStated ==
    (pc = "loop" \/ LoopOver) =>
        /\ Len(sleeps) = Len(downloads)
        /\ \A k \in 1..Len(downloads) :
              sleeps[k] = << downloads[k], Delay >>

\* the token exchanges that succeeded before the i-th upload request
IssuedBefore(i) ==
    { k \in 1..Len(exchanges) :
        exchanges[k].ok /\ exchanges[k].uploads < i }

\* the access token in force at the i-th upload request: that of the last
\* exchange that succeeded before it, or the stored one
TokenInForce(i) ==
    IF IssuedBefore(i) = {}
    THEN Stored.access_token
    ELSE LET k == CHOOSE m \in IssuedBefore(i) :
                      \A n \in IssuedBefore(i) : n <= m
         IN  exchanges[k].access_token

\* the exchanges that succeeded in this run
Succeeded == { k \in 1..Len(exchanges) : exchanges[k].ok }

\* C20: every upload request carries the access token of the last token
\* exchange that succeeded before it; after a refresh on a 401 succeeded,
\* no request carries the token the run's first request carried; and when
\* the last exchange that succeeded wrote tokens.json, the token main()
\* holds is the access token of the stored record.
C20_TokenCarried ==
    /\ \A i \in 1..Len(uploads) : uploads[i].token = TokenInForce(i)
    /\ \A k \in Succeeded :
          exchanges[k].uploads >= 1 =>
              \A i \in (exchanges[k].uploads + 1)..Len(uploads) :
                  uploads[i].token # uploads[1].token
    /\ (Succeeded # {} /\ \A k \in Succeeded :
                              (\A n \in Succeeded : n <= k)
                                  => exchanges[k].saved)
          => /\ tokensFile # {}
             /\ Persisted.access_token = access_token

\* the refresh after a 401 succeeded and was saved, and the first request
\* for the following activity carried the refreshed token
C20_Witness ==
    /\ Len(uploads) >= 3
    /\ uploads[1].status = HTTP_UNAUTHORIZED
    /\ uploads[2].id = uploads[1].id
    /\ uploads[3].id # uploads[1].id
    /\ uploads[3].token = uploads[2].token
    /\ uploads[3].token # uploads[1].token
    /\ tokensFile # {}
    /\ Persisted.access_token = uploads[3].token

\* the ids of the provider's list of this run, as ledger keys
ListedKeys == { str(a) : a \in Range(activities) }

\* C21: no step of a run of main() or of the migration removes a ledger
\* key, so the set of recorded ids only grows, and the keys a run has added
\* since it started are ids of the provider's list of that run.
C21_Monotone ==
    /\ [][ LedgerKeys(ledger) \subseteq LedgerKeys(ledger') ]_vars
    /\ [](pc # "idle" =>
             (LedgerKeys(ledger) \ LedgerKeys(ledger0)) \subseteq ListedKeys)

\* after two runs and two migrations the ledger holds three keys or more,
\* a row written by the migration among them and a row that a run wrote
\* after the clock had advanced
C21_Witness ==
    /\ pc = "idle"
    /\ runs = 2
    /\ migrations = 2
    /\ Cardinality(LedgerKeys(ledger)) >= 3
    /\ \E r \in ledger : r.status = "migrated"
    /\ \E r \in ledger :
          /\ r.activity_id = str(1)
          /\ r.status = "uploaded"
          /\ r.uploaded_at >= 1

\* the row add_processed_id(activity_id) writes at this moment
UpsertedRow ==
    [ activity_id |-> str(activity_id), uploaded_at |-> now,
      gpx_id |-> NULL, status |-> "uploaded" ]

\* C22: a run of the migration leaves every row the ledger holds as it is,
\* status, timestamp and remote track id included, whether or not its id
\* is in the legacy file; a ledger write of main() leaves the row it
\* writes as the only row of its key, whatever row the key had before.
C22_NeverOverwrites ==
    /\ [][ migrations' = migrations + 1
              => \A r \in ledger : r \in ledger' ]_vars
    /\ [][ writes' = Append(writes, activity_id)
              => /\ UpsertedRow \in ledger'
                 /\ \A r \in ledger' :
                       r.activity_id = str(activity_id) => r = UpsertedRow
         ]_vars

\* the migration has run over a legacy file that names activity 1 and has
\* left the uploaded row of that activity alone; a run of main() that
\* could not read the ledger has then uploaded the activity again and
\* replaced the row by one with a later timestamp
C22_Witness ==
    /\ pc # "idle"
    /\ migrations >= 1
    /\ txtFile.exists
    /\ str(1) \in TxtIds
    /\ UploadedRow(1) \in ledger0
    /\ 1 \in Range(writes)
    /\ UploadedRow(1) \notin ledger
    /\ \E r \in ledger :
          /\ r.activity_id = str(1)
          /\ r.uploaded_at >= 1

====
